---- MODULE Spec2Model ----
(***************************************************************************)
(* ASLA logistics accounting (src/src/App.tsx): the chart of accounts, the *)
(* voucher history, the voucher entry form, the AI requests, and the three *)
(* derived views (general ledger, trial balance, financial statements).    *)
(*                                                                         *)
(* Conventions of the translation                                          *)
(*  - A JavaScript array is a sequence; the code's 0-based index i is      *)
(*    position i + 1.                                                      *)
(*  - Amounts are the non-negative integers parseNumber produces, taken   *)
(*    below 2^53, where the arithmetic of JavaScript numbers is that of    *)
(*    the integers; NaN (and an `undefined` amount, which Number() turns   *)
(*    into NaN) is -1.                                                     *)
(*  - The account names, the reversal prefix and the alert texts are       *)
(*    Japanese in the source; they are written here in ASCII.              *)
(*  - An account code is the sequence of its digits, so that the string    *)
(*    comparison of localeCompare is the lexicographic order CodeLess.     *)
(*  - A date "YYYY-MM-DD" is its day number: localeCompare on ISO dates is *)
(*    the order of the days.                                               *)
(***************************************************************************)
EXTENDS Integers, Sequences, FiniteSets, TLC

\* ------------------------------------------------------------------ bounds
\* The history is explored up to this many vouchers (one more where the chart
\* of accounts stays as seeded).
MaxVouchers == 2
\* Date.now() takes the values 0..MaxClock.
MaxClock == 1
\* Clock readings per calendar day.
TicksPerDay == 2
\* The entry form is edited row by row up to this many rows on a side.
MaxRows == 2

\* --------------------------------------------------------------- constants
\* recentVouchers.slice(0, 5): only these rows carry a reverse button.
RecentShown == 5

VARIABLES
    activeTab,      \* App: activeTab
    accounts,       \* App: accounts
    vouchers,       \* App: vouchers (most recent first)
    aiLoading,      \* App: aiLoading
    aiAdvice,       \* App: aiAdvice
    date,           \* VoucherEntryView: date
    description,    \* VoucherEntryView: description
    debitEntries,   \* VoucherEntryView: debitEntries
    creditEntries,  \* VoucherEntryView: creditEntries
    pending,        \* AI requests awaiting their response
    now,            \* the reading of Date.now()
    lastOp,         \* the last user gesture and what the program answered
    mounted         \* the React root still renders App: an error thrown by a
                    \* render, which nothing catches, unmounts the whole tree

vars == <<activeTab, accounts, vouchers, aiLoading, aiAdvice, date, description,
          debitEntries, creditEntries, pending, now, lastOp, mounted>>

\* ------------------------------------------------------------------- types
AccountType == {"ASSET", "LIABILITY", "EQUITY", "REVENUE", "EXPENSE"}

TabType == {"entry", "ledger", "tb", "fs", "settings"}

Account(id, code, name, type, isStandard) ==
    [id |-> id, code |-> code, name |-> name, type |-> type, isStandard |-> isStandard]

JournalEntry(accountId, amount, desc) ==
    [accountId |-> accountId, amount |-> amount, description |-> desc]

LOGISTICS_ACCOUNTS ==
    << Account("101", <<1,1,0,1>>, "genkin",            "ASSET",     TRUE),
       Account("102", <<1,1,0,2>>, "futsu-yokin",       "ASSET",     TRUE),
       Account("103", <<1,1,0,3>>, "urikakekin",        "ASSET",     TRUE),
       Account("104", <<1,2,0,1>>, "sharyo-unpangu",    "ASSET",     TRUE),
       Account("201", <<2,1,0,1>>, "kaikakekin",        "LIABILITY", TRUE),
       Account("202", <<2,1,0,2>>, "miharaikin",        "LIABILITY", TRUE),
       Account("203", <<2,2,0,1>>, "kariirekin",        "LIABILITY", TRUE),
       Account("301", <<3,1,0,1>>, "shihonkin",         "EQUITY",    TRUE),
       Account("401", <<4,1,0,1>>, "unso-shunyu",       "REVENUE",   TRUE),
       Account("501", <<5,1,0,1>>, "nenryohi",          "EXPENSE",   TRUE),
       Account("502", <<5,1,0,2>>, "kosoku-riyoryo",    "EXPENSE",   TRUE),
       Account("503", <<5,1,0,3>>, "sharyo-hoshuhi",    "EXPENSE",   TRUE),
       Account("504", <<5,1,0,4>>, "nizukuri-unchin",   "EXPENSE",   TRUE),
       Account("505", <<5,1,0,5>>, "niyaku-romuhi",     "EXPENSE",   TRUE),
       Account("506", <<5,1,0,6>>, "kyuyo-teate",       "EXPENSE",   TRUE),
       Account("507", <<5,1,0,7>>, "hotei-fukurihi",    "EXPENSE",   TRUE) >>

\* ----------------------------------------------------- JavaScript values
\* NaN, and an amount that is `undefined` (Number(undefined) is NaN).
NaN == -1

\* A description that is `undefined` (falsy, like '').
UndefinedText == "<undefined>"

\* An accountId that is `undefined`.
UndefinedId == "<undefined>"

\* What the evaluation of an expression gives when it throws a TypeError
\* (a property read of `undefined`).
TypeError == -2

\* A hole of a sparse array: forEach, reduce, map and filter skip it.
EmptySlot == [accountId |-> "<empty>", amount |-> NaN, description |-> "<empty>"]

\* An array element that is `undefined` (what spreading a sparse array leaves
\* where it had a hole).
UndefinedElement ==
    [accountId |-> "<undefined element>", amount |-> NaN, description |-> "<undefined element>"]

\* Number(x) for x a number or undefined.
Number(x) == IF x < 0 THEN NaN ELSE x

\* a + b on numbers: NaN is absorbing.
Plus(a, b) == IF a = NaN \/ b = NaN THEN NaN ELSE a + b

\* a || b on strings.
OrElse(a, b) == IF a = "" \/ a = UndefinedText THEN b ELSE a

\* The elements an array method visits: a sparse array without its holes.
Visited(entries) == SelectSeq(entries, LAMBDA e : e # EmptySlot)

\* The copy that starts at the second element: what C17 would face if the
\* copy of a side were off by one.
CopyEntriesSkipFirst(entries) == [i \in 1..(Len(entries) - 1) |-> entries[i + 1]]

\* entries.map(e => ({ ...e })): a copy, element by element, holes kept.
CopyEntries(entries) == [i \in 1..Len(entries) |-> entries[i]]

\* accounts.find(a => a.id === id): the first match, or none (<<>>).
FindById(accts, id) == SelectSeq(accts, LAMBDA a : a.id = id)

Ids(accts) == {accts[i].id : i \in 1..Len(accts)}

\* ------------------------------------------------------------------ clock
Clock == 0..MaxClock

\* new Date().toISOString().split('T')[0] at clock reading t.  Reading 0 is
\* the last one of day 0.
Today(t) == (t + 1) \div TicksPerDay

\* ------------------------------------------------- voucher entry: totals
\* entries.reduce((sum, e) => sum + Number(e.amount), 0): reduce skips the
\* holes; on an element that is `undefined` the read of e.amount throws.
RECURSIVE SumAmounts(_)
SumAmounts(entries) ==
    IF entries = <<>> THEN 0
    ELSE LET rest == SumAmounts([i \in 1..(Len(entries) - 1) |-> entries[i]])
             e    == entries[Len(entries)]
         IN  IF rest = TypeError \/ e = UndefinedElement THEN TypeError
             ELSE IF e = EmptySlot THEN rest
             ELSE Plus(rest, Number(e.amount))

totalDebit(debits) == SumAmounts(debits)

totalCredit(credits) == SumAmounts(credits)

\* VoucherEntryView renders: neither total throws.
FormRenders(debits, credits) ==
    totalDebit(debits) # TypeError /\ totalCredit(credits) # TypeError

\* isBalanced without `totalDebit > 0`: what C1 would face if the form accepted
\* equal totals of zero.
isBalancedEqualTotals(debits, credits) ==
    /\ FormRenders(debits, credits)
    /\ totalDebit(debits) # NaN
    /\ totalCredit(credits) # NaN
    /\ totalDebit(debits) = totalCredit(credits)

\* isBalanced without `totalDebit === totalCredit`: what C2 would face if the
\* form accepted any positive debit total.
isBalancedPositiveDebit(debits, credits) ==
    /\ FormRenders(debits, credits)
    /\ totalDebit(debits) # NaN
    /\ totalCredit(credits) # NaN
    /\ totalDebit(debits) > 0

\* totalDebit > 0 && totalDebit === totalCredit (NaN compares false with everything)
isBalanced(debits, credits) ==
    /\ FormRenders(debits, credits)
    /\ totalDebit(debits) # NaN
    /\ totalCredit(credits) # NaN
    /\ totalDebit(debits) > 0
    /\ totalDebit(debits) = totalCredit(credits)

\* description.trim(), on the descriptions the model types in
Trim(s) == IF s = " " THEN "" ELSE s

\* { accountId: accounts[0]?.id || '', amount: 0, description: '' }
BlankEntry(accts) ==
    JournalEntry(IF accts = <<>> THEN "" ELSE accts[1].id, 0, "")

\* ------------------------------------------------------ voucher store
\* addVoucher as setVouchers(prev => [v]): what C8 would face if the store
\* kept the newest voucher only.
addVoucherOnly(prev, v) == <<v>>

\* addVoucher: setVouchers(prev => [v, ...prev])
addVoucher(prev, v) == <<v>> \o prev

\* The voucher handleSubmit builds from the form at clock reading t.
SubmittedVoucher(t, d, desc, debits, credits) ==
    [ id            |-> "v-" \o ToString(t),
      date          |-> d,
      debitEntries  |-> CopyEntries(debits),
      creditEntries |-> CopyEntries(credits),
      description   |-> desc,
      createdAt     |-> t ]

ReversalPrefix == "[hantai-shiwake]"

\* reverseVoucher without the swap of the sides: what C6 would face.
reverseVoucherSameSides(v, t) ==
    [ id            |-> "rev-" \o ToString(t),
      date          |-> Today(t),
      debitEntries  |-> CopyEntries(v.debitEntries),
      creditEntries |-> CopyEntries(v.creditEntries),
      description   |-> ReversalPrefix \o v.description,
      createdAt     |-> t ]

\* reverseVoucher keeping the first row of each side only: what C7 would face.
reverseVoucherFirstRows(v, t) ==
    [ id            |-> "rev-" \o ToString(t),
      date          |-> Today(t),
      debitEntries  |-> <<v.creditEntries[1]>>,
      creditEntries |-> <<v.debitEntries[1]>>,
      description   |-> ReversalPrefix \o v.description,
      createdAt     |-> t ]

\* reverseVoucher: the voucher built from v at clock reading t.
reverseVoucher(v, t) ==
    [ id            |-> "rev-" \o ToString(t),
      date          |-> Today(t),
      debitEntries  |-> CopyEntries(v.creditEntries),
      creditEntries |-> CopyEntries(v.debitEntries),
      description   |-> ReversalPrefix \o v.description,
      createdAt     |-> t ]

\* ------------------------------------------------------ chart of accounts
\* a.localeCompare(b) < 0 on digit strings: lexicographic, a proper prefix first.
RECURSIVE CodeLess(_, _)
CodeLess(a, b) ==
    IF b = <<>> THEN FALSE
    ELSE IF a = <<>> THEN TRUE
    ELSE IF Head(a) # Head(b) THEN Head(a) < Head(b)
    ELSE CodeLess(Tail(a), Tail(b))

\* Array.prototype.sort with (a, b) => a.code.localeCompare(b.code): stable.
RECURSIVE SortByCode(_)
SortByCode(accts) ==
    IF Len(accts) <= 1 THEN accts
    ELSE LET init   == SortByCode([i \in 1..(Len(accts) - 1) |-> accts[i]])
             x      == accts[Len(accts)]
             before == SelectSeq(init, LAMBDA a : ~CodeLess(x.code, a.code))
             after  == SelectSeq(init, LAMBDA a : CodeLess(x.code, a.code))
         IN  before \o <<x>> \o after

\* { ...newAccount, id: `acc-${Date.now()}` }: no isStandard field, which reads as falsy.
NewAccount(code, name, type, t) ==
    Account("acc-" \o ToString(t), code, name, type, FALSE)

\* addAccount without the sort: what C13 would face if the new account were
\* left at the end of the chart.
addAccountAppendOnly(prev, code, name, type, t) ==
    Append(prev, NewAccount(code, name, type, t))

\* addAccount's update: [...prev, account].sort(by code)
addAccount(prev, code, name, type, t) ==
    SortByCode(Append(prev, NewAccount(code, name, type, t)))

\* removeAccount's update: prev.filter(a => a.id !== id)
removeAccount(prev, id) == SelectSeq(prev, LAMBDA a : a.id # id)

\* The delete button rendered on every row: what C10 would face.
RemoveButtonAlways(a) == TRUE

\* {!a.isStandard && <button onClick={() => removeAccount(a.id)} ...>}
RemoveButtonShown(a) == ~a.isStandard

\* ------------------------------------------------------------ derived views
\* The views read the voucher history, whose amounts are numbers (the form's
\* NaN never passes isBalanced), so their arithmetic is that of the integers.

RECURSIVE SumSeq(_)
SumSeq(xs) == IF xs = <<>> THEN 0 ELSE Head(xs) + SumSeq(Tail(xs))

\* account.type === AccountType.ASSET || account.type === AccountType.EXPENSE
isAssetOrExpense(type) == type = "ASSET" \/ type = "EXPENSE"

\* A sort by date that is not stable: what C23 would face if vouchers of the
\* same date came out in the reverse of the order they went in.
RECURSIVE SortByDateTiesReversed(_)
SortByDateTiesReversed(vs) ==
    IF Len(vs) <= 1 THEN vs
    ELSE LET init   == SortByDateTiesReversed([i \in 1..(Len(vs) - 1) |-> vs[i]])
             x      == vs[Len(vs)]
             before == SelectSeq(init, LAMBDA v : v.date < x.date)
             after  == SelectSeq(init, LAMBDA v : v.date >= x.date)
         IN  before \o <<x>> \o after

\* [...vouchers].sort((a, b) => a.date.localeCompare(b.date)): stable, ascending.
RECURSIVE SortByDate(_)
SortByDate(vs) ==
    IF Len(vs) <= 1 THEN vs
    ELSE LET init   == SortByDate([i \in 1..(Len(vs) - 1) |-> vs[i]])
             x      == vs[Len(vs)]
             before == SelectSeq(init, LAMBDA v : v.date <= x.date)
             after  == SelectSeq(init, LAMBDA v : v.date > x.date)
         IN  before \o <<x>> \o after

\* vouchers.sort(...) without the copy: what C21 would face.  sort works in
\* place, so the array of the state would be left in date order.
ledgerSortInPlace(vs) == [history |-> SortByDate(vs), sortedVouchers |-> SortByDate(vs)]

\* const sortedVouchers = [...vouchers].sort(...): the spread makes a new
\* array and sort works in place on it; `history` is the array of the state
\* after the statement.
ledgerSort(vs) == [history |-> vs, sortedVouchers |-> SortByDate(vs)]

\* The entries of one side that a forEach with `e.accountId === id` acts on.
Matching(entries, id) == SelectSeq(entries, LAMBDA e : e # EmptySlot /\ e.accountId = id)

\* The credit entries pushed before the debit entries: what C25 would face if
\* the two forEach loops of a voucher were swapped.
VoucherLinesCreditsFirst(v, id, aoe) ==
    LET ds == Matching(v.debitEntries, id)
        cs == Matching(v.creditEntries, id)
    IN  [i \in 1..Len(cs) |->
            [ date |-> v.date, desc |-> OrElse(cs[i].description, v.description),
              debit |-> 0, credit |-> cs[i].amount,
              delta |-> IF aoe THEN -cs[i].amount ELSE cs[i].amount ]]
        \o
        [i \in 1..Len(ds) |->
            [ date |-> v.date, desc |-> OrElse(ds[i].description, v.description),
              debit |-> ds[i].amount, credit |-> 0,
              delta |-> IF aoe THEN ds[i].amount ELSE -ds[i].amount ]]

\* What one voucher pushes for the selected account, before the running balance:
\* its matching debit entries in order, then its matching credit entries.
VoucherLines(v, id, aoe) ==
    LET ds == Matching(v.debitEntries, id)
        cs == Matching(v.creditEntries, id)
    IN  [i \in 1..Len(ds) |->
            [ date |-> v.date, desc |-> OrElse(ds[i].description, v.description),
              debit |-> ds[i].amount, credit |-> 0,
              delta |-> IF aoe THEN ds[i].amount ELSE -ds[i].amount ]]
        \o
        [i \in 1..Len(cs) |->
            [ date |-> v.date, desc |-> OrElse(cs[i].description, v.description),
              debit |-> 0, credit |-> cs[i].amount,
              delta |-> IF aoe THEN -cs[i].amount ELSE cs[i].amount ]]

RECURSIVE AllVoucherLines(_, _, _)
AllVoucherLines(vs, id, aoe) ==
    IF vs = <<>> THEN <<>>
    ELSE VoucherLines(Head(vs), id, aoe) \o AllVoucherLines(Tail(vs), id, aoe)

\* GeneralLedgerView.ledgerLines for selectedAccountId.
ledgerLines(vs, accts, selectedAccountId) ==
    LET account == FindById(accts, selectedAccountId)
        aoe     == account # <<>> /\ isAssetOrExpense(account[1].type)
        pushed  == AllVoucherLines(ledgerSort(vs).sortedVouchers, selectedAccountId, aoe)
    IN  [k \in 1..Len(pushed) |->
            [ date    |-> pushed[k].date,
              desc    |-> pushed[k].desc,
              debit   |-> pushed[k].debit,
              credit  |-> pushed[k].credit,
              balance |-> SumSeq([j \in 1..k |-> pushed[j].delta]) ]]

\* The balance the ledger ends on (0 for an empty ledger).
LedgerFinalBalance(vs, accts, id) ==
    LET lines == ledgerLines(vs, accts, id)
    IN  IF lines = <<>> THEN 0 ELSE lines[Len(lines)].balance

\* Sum of Number(e.amount) over the entries of one side that reference id.
SideTotal(entries, id) ==
    LET m == Matching(entries, id)
    IN  SumSeq([i \in 1..Len(m) |-> Number(m[i].amount)])

debitTotalOf(vs, id) == SumSeq([i \in 1..Len(vs) |-> SideTotal(vs[i].debitEntries, id)])

creditTotalOf(vs, id) == SumSeq([i \in 1..Len(vs) |-> SideTotal(vs[i].creditEntries, id)])

\* Debit minus credit whatever the type: what C27 would face if the trial
\* balance ignored the sign convention.
netBalanceDebitMinusCredit(type, debitTotal, creditTotal) == debitTotal - creditTotal

\* isAssetOrExpense ? debitTotal - creditTotal : creditTotal - debitTotal
netBalance(type, debitTotal, creditTotal) ==
    IF isAssetOrExpense(type) THEN debitTotal - creditTotal ELSE creditTotal - debitTotal

\* The row TrialBalanceView.tbData maps one account to.
tbRow(account, vs) ==
    LET d == debitTotalOf(vs, account.id)
        c == creditTotalOf(vs, account.id)
    IN  [ code |-> account.code, name |-> account.name, type |-> account.type,
          debitTotal |-> d, creditTotal |-> c,
          balance |-> netBalance(account.type, d, c) ]

\* The filter looking at the debit total only: what C15 would face if the
\* trial balance dropped the rows without debits.
tbShownDebitOnly(row) == row.debitTotal # 0

\* The filter looking at the net balance: what C26 would face if the trial
\* balance dropped the accounts whose debits and credits cancel.
tbShownNonZeroBalance(row) == row.balance # 0

\* .filter(d => d.debitTotal !== 0 || d.creditTotal !== 0)
tbShown(row) == row.debitTotal # 0 \/ row.creditTotal # 0

\* TrialBalanceView.tbData
tbData(vs, accts) ==
    SelectSeq([i \in 1..Len(accts) |-> tbRow(accts[i], vs)], tbShown)

\* TrialBalanceView.totals
totals(tb) ==
    [ debit  |-> SumSeq([i \in 1..Len(tb) |-> tb[i].debitTotal]),
      credit |-> SumSeq([i \in 1..Len(tb) |-> tb[i].creditTotal]) ]

\* The item with debit minus credit for every type: what C5 would face if the
\* statement ignored the sign convention.
fsItemDebitMinusCredit(account, vs) ==
    [ name   |-> account.name,
      amount |-> debitTotalOf(vs, account.id) - creditTotalOf(vs, account.id),
      type   |-> account.type ]

\* The item FinancialStatementsView.statement computes for one account.
fsItem(account, vs) ==
    [ name   |-> account.name,
      amount |-> netBalance(account.type, debitTotalOf(vs, account.id),
                            creditTotalOf(vs, account.id)),
      type   |-> account.type ]

isProfitAndLoss(type) == type = "REVENUE" \/ type = "EXPENSE"

\* if (amount === 0) return;
fsShown(item) == item.amount # 0

\* FinancialStatementsView.statement
statement(vs, accts) ==
    LET items == SelectSeq([i \in 1..Len(accts) |-> fsItem(accts[i], vs)], fsShown)
        pl    == SelectSeq(items, LAMBDA it : isProfitAndLoss(it.type))
        bs    == SelectSeq(items, LAMBDA it : ~isProfitAndLoss(it.type))
    IN  [ plItems   |-> pl,
          bsItems   |-> bs,
          netIncome |-> SumSeq([i \in 1..Len(pl) |->
                            IF pl[i].type = "REVENUE" THEN pl[i].amount ELSE -pl[i].amount]) ]

\* statement.bsItems.filter(i => i.type === ASSET): the assets section
bsAssets(st) == SelectSeq(st.bsItems, LAMBDA it : it.type = "ASSET")

\* statement.bsItems.filter(i => i.type !== ASSET): the liabilities and equity section
bsLiabilitiesAndEquity(st) == SelectSeq(st.bsItems, LAMBDA it : it.type # "ASSET")

\* ------------------------------------------------------ voucher entry form
\* {}: an object none of whose fields is set.
EmptyObject == [accountId |-> UndefinedId, amount |-> NaN, description |-> UndefinedText]

\* updateEntry's update of one side:
\*   const next = [...prev]; next[index] = { ...next[index], [field]: value };
\* The spread turns holes into undefined elements; an index past the end
\* lengthens the array and leaves holes before it.
updateEntry(prev, index, field, value) ==
    LET dense  == [i \in 1..Len(prev) |->
                      IF prev[i] = EmptySlot THEN UndefinedElement ELSE prev[i]]
        old    == IF index + 1 <= Len(prev) /\ dense[index + 1] # UndefinedElement
                  THEN dense[index + 1] ELSE EmptyObject
        newLen == IF index + 1 > Len(prev) THEN index + 1 ELSE Len(prev)
    IN  [i \in 1..newLen |->
            IF i = index + 1 THEN [old EXCEPT ![field] = value]
            ELSE IF i <= Len(prev) THEN dense[i]
            ELSE EmptySlot]

\* addEntry's update of one side: [...prev, { accountId: accounts[0]?.id || '', ... }]
\* (the spread turns holes into undefined elements)
addEntry(prev, accts) ==
    [i \in 1..Len(prev) |-> IF prev[i] = EmptySlot THEN UndefinedElement ELSE prev[i]]
        \o <<BlankEntry(accts)>>

\* removeEntry's update of one side:
\*   if (prev.length <= 1) return prev; return prev.filter((_, i) => i !== index);
\* (filter skips the holes)
removeEntry(prev, index) ==
    IF Len(prev) <= 1 THEN prev
    ELSE LET kept == {i \in 1..Len(prev) : i # index + 1 /\ prev[i] # EmptySlot}
             RECURSIVE Pick(_)
             Pick(i) == IF i > Len(prev) THEN <<>>
                        ELSE IF i \in kept THEN <<prev[i]>> \o Pick(i + 1)
                        ELSE Pick(i + 1)
         IN  Pick(1)

\* {debitEntries.length > 1 && <button onClick={() => removeEntry(true, i)}>}
RemoveEntryShown(entries) == Len(entries) > 1

\* The form as VoucherEntryView mounts it at clock reading t.
MountedForm(accts, t) ==
    [ date          |-> Today(t),
      description   |-> "",
      debitEntries  |-> <<BlankEntry(accts)>>,
      creditEntries |-> <<BlankEntry(accts)>> ]

\* The form variables while VoucherEntryView is not rendered.
NoForm == [date |-> 0, description |-> "", debitEntries |-> <<>>, creditEntries |-> <<>>]

\* The ids of the accounts the user added (the rows that are not standard).
CustomIds(accts) == {accts[i].id : i \in {j \in 1..Len(accts) : ~accts[j].isStandard}}

\* What the user types into the form before pressing a button: sequences of
\* setDate, setDescription, updateEntry, addEntry and removeEntry calls that
\* leave the form with one of these contents.
\* A cash sale: one debit, one credit.
SaleFormInput ==
    [ date |-> 1, description |-> "sale",
      debitEntries  |-> <<JournalEntry("101", 1, "")>>,
      creditEntries |-> <<JournalEntry("401", 1, "")>> ]

\* Two rows on each side, line descriptions, an earlier date.
FuelFormInput ==
    [ date |-> 0, description |-> "fuel",
      debitEntries  |-> <<JournalEntry("501", 2, "diesel"), JournalEntry("101", 1, "")>>,
      creditEntries |-> <<JournalEntry("201", 2, ""), JournalEntry("301", 1, "capital")>> ]

\* Fuel and toll paid in cash: two debit rows with line descriptions, so that
\* each of them has a suggest button that sends a request.
TollFormInput ==
    [ date |-> 1, description |-> "fuel",
      debitEntries  |-> <<JournalEntry("501", 1, "diesel"), JournalEntry("502", 1, "toll")>>,
      creditEntries |-> <<JournalEntry("101", 2, "")>> ]

\* Forms that handleSubmit accepts.
BalancedFormInputs == {SaleFormInput, FuelFormInput}

\* Forms that the register button refuses.
RejectedFormInputs ==
    { \* debit total 2, credit total 1
      [ date |-> 1, description |-> "sale",
        debitEntries  |-> <<JournalEntry("101", 2, "")>>,
        creditEntries |-> <<JournalEntry("401", 1, "")>> ],
      \* both totals 0
      [ date |-> 1, description |-> "sale",
        debitEntries  |-> <<JournalEntry("101", 0, "")>>,
        creditEntries |-> <<JournalEntry("401", 0, "")>> ],
      \* balanced, but the description is blank
      [ date |-> 1, description |-> " ",
        debitEntries  |-> <<JournalEntry("101", 1, "")>>,
        creditEntries |-> <<JournalEntry("401", 1, "")>> ] }

\* A posting to an account the user added: two debit rows against one credit
\* row, dated before the cash sale.
CustomFormInputs(accts) ==
    { [ date |-> 0, description |-> "misc",
        debitEntries  |-> <<JournalEntry(c, 2, "parts"), JournalEntry("101", 1, "")>>,
        creditEntries |-> <<JournalEntry("201", 3, "")>> ] : c \in CustomIds(accts) }

\* An added account for every reading of the clock: the ids addAccount can
\* build.
AddedAccounts ==
    [t \in 1..(MaxClock + 1) |-> NewAccount(<<5,1,0,8>>, "sharyo-hokenryo", "EXPENSE", t - 1)]

\* What the user types into the new-account inputs of SettingsView: inputs
\* that addAccount accepts on the seed chart.
ValidNewAccountInputs ==
    { [code |-> <<5,1,0,8>>, name |-> "sharyo-hokenryo", type |-> "EXPENSE"],
      [code |-> <<2,3,0,1>>, name |-> "risu-saimu",      type |-> "LIABILITY"] }

\* Inputs that addAccount refuses: no code, no name, the code of a seed account.
RejectedNewAccountInputs ==
    { [code |-> <<>>,        name |-> "sharyo-hokenryo", type |-> "EXPENSE"],
      [code |-> <<5,1,0,9>>, name |-> "",                type |-> "EXPENSE"],
      [code |-> <<1,1,0,1>>, name |-> "genkin-2",        type |-> "ASSET"] }

\* A code of two digits: as a string it sorts after "5107".
ShortCodeAccountInputs ==
    { [code |-> <<5,2>>, name |-> "zappi", type |-> "EXPENSE"] }

\* Every input the model types into the new-account inputs.
SettingsInputs ==
    ValidNewAccountInputs \cup RejectedNewAccountInputs \cup ShortCodeAccountInputs

\* ------------------------------------------------------------ AI requests
\* aiAdvice === null
NoAdvice == "<null>"

AdviceText == "advice"

\* response.text || ... : the text shown when the response carries none
AdviceEmptyFallback == "no advice could be generated"

\* the text shown when the request throws
AdviceErrorFallback == "an error occurred during the AI analysis"

\* The account names a suggestion response may carry.
SuggestedNames == {"unso-shunyu", "no-such-account"}

\* accounts.find(a => a.name === data.accountName)
FindByName(accts, name) == SelectSeq(accts, LAMBDA a : a.name = name)

SuggestRequest(isDebit, index, accts) ==
    [kind |-> "suggest", isDebit |-> isDebit, index |-> index, live |-> TRUE,
     candidates |-> accts]

AdviceRequest ==
    [kind |-> "advice", isDebit |-> FALSE, index |-> 0, live |-> TRUE, candidates |-> <<>>]

\* Unmounting VoucherEntryView: the state setters of its pending handleSuggest
\* calls no longer reach a rendered form, so what the call was asked for is
\* never used again.
Detach(reqs) ==
    { IF r.kind = "suggest"
      THEN [kind |-> "suggest", isDebit |-> FALSE, index |-> 0, live |-> FALSE,
            candidates |-> <<>>]
      ELSE r : r \in reqs }

\* ------------------------------------------------------------------- Init
NoOp == [op |-> "none", result |-> "", arg |-> 0]

Op(op, result, arg) == [op |-> op, result |-> result, arg |-> arg]

Init ==
    /\ activeTab = "entry"
    /\ accounts = LOGISTICS_ACCOUNTS
    /\ vouchers = <<>>
    /\ aiLoading = FALSE
    /\ aiAdvice = NoAdvice
    /\ date = MountedForm(LOGISTICS_ACCOUNTS, 0).date
    /\ description = MountedForm(LOGISTICS_ACCOUNTS, 0).description
    /\ debitEntries = MountedForm(LOGISTICS_ACCOUNTS, 0).debitEntries
    /\ creditEntries = MountedForm(LOGISTICS_ACCOUNTS, 0).creditEntries
    /\ pending = {}
    /\ now = 0
    /\ lastOp = NoOp
    /\ mounted = TRUE

\* ---------------------------------------------------------------- actions
formVars == <<date, description, debitEntries, creditEntries>>

aiVars == <<aiLoading, aiAdvice, pending>>

\* Date.now() advances.
Tick ==
    /\ now < MaxClock
    /\ now' = now + 1
    /\ UNCHANGED <<activeTab, accounts, vouchers, formVars, aiVars, lastOp, mounted>>

\* The voucher array of the state after the view of a tab has been rendered:
\* the ledger sorts, the trial balance and the statements only read (forEach,
\* map, filter, reduce).
RenderedHistory(tab, vs) == IF tab = "ledger" THEN ledgerSort(vs).history ELSE vs

\* A click on a tab of the header: setActiveTab(tab).  Only the active tab's
\* view is rendered: leaving 'entry' unmounts VoucherEntryView (its form state
\* is dropped), entering it mounts a fresh one.
SetActiveTab(tab) ==
    /\ mounted
    /\ activeTab' = tab
    /\ IF tab = "entry" /\ activeTab # "entry"
       THEN /\ date' = MountedForm(accounts, now).date
            /\ description' = MountedForm(accounts, now).description
            /\ debitEntries' = MountedForm(accounts, now).debitEntries
            /\ creditEntries' = MountedForm(accounts, now).creditEntries
            /\ pending' = pending
       ELSE IF tab # "entry" /\ activeTab = "entry"
       THEN /\ date' = NoForm.date
            /\ description' = NoForm.description
            /\ debitEntries' = NoForm.debitEntries
            /\ creditEntries' = NoForm.creditEntries
            /\ pending' = Detach(pending)
       ELSE UNCHANGED <<formVars, pending>>
    /\ lastOp' = NoOp
    /\ vouchers' = RenderedHistory(tab, vouchers)
    /\ UNCHANGED <<accounts, aiLoading, aiAdvice, now, mounted>>

\* A handleSuggest call of the rendered form is waiting for its response.
SuggestionInFlight == \E r \in pending : r.kind = "suggest" /\ r.live

\* entries.map((e, i) => <div key={i}>...): row index of a side is rendered,
\* with its inputs and buttons.  map skips the holes.
RowRendered(entries, index) ==
    /\ index + 1 \in 1..Len(entries)
    /\ entries[index + 1] # EmptySlot

\* The user picks a day in the date input: setDate(d).
SetDate(d) ==
    /\ mounted
    /\ activeTab = "entry"
    /\ date' = d
    /\ lastOp' = NoOp
    /\ UNCHANGED <<activeTab, accounts, vouchers, aiVars, now, description,
                   debitEntries, creditEntries, mounted>>

\* The user types into the description input: setDescription(text).
SetDescription(text) ==
    /\ mounted
    /\ activeTab = "entry"
    /\ description' = text
    /\ lastOp' = NoOp
    /\ UNCHANGED <<activeTab, accounts, vouchers, aiVars, now, date, debitEntries,
                   creditEntries, mounted>>

\* The user changes an input of row index of one side:
\* updateEntry(isDebit, index, field, value).  The form is rendered again on
\* the new rows.
ChangeEntry(isDebit, index, field, value) ==
    /\ mounted
    /\ activeTab = "entry"
    /\ RowRendered(IF isDebit THEN debitEntries ELSE creditEntries, index)
    /\ debitEntries' = IF isDebit THEN updateEntry(debitEntries, index, field, value)
                       ELSE debitEntries
    /\ creditEntries' = IF isDebit THEN creditEntries
                        ELSE updateEntry(creditEntries, index, field, value)
    /\ mounted' = FormRenders(debitEntries', creditEntries')
    /\ lastOp' = NoOp
    /\ UNCHANGED <<activeTab, accounts, vouchers, aiVars, now, date, description>>

\* The add-row button of one side: addEntry(isDebit).  The form is rendered
\* again on the new rows.
ClickAddEntry(isDebit) ==
    /\ mounted
    /\ activeTab = "entry"
    /\ debitEntries' = IF isDebit THEN addEntry(debitEntries, accounts) ELSE debitEntries
    /\ creditEntries' = IF isDebit THEN creditEntries ELSE addEntry(creditEntries, accounts)
    /\ mounted' = FormRenders(debitEntries', creditEntries')
    /\ lastOp' = NoOp
    /\ UNCHANGED <<activeTab, accounts, vouchers, aiVars, now, date, description>>

\* The user reaches for the remove button of row index of one side.  A side of
\* one row shows no button; otherwise removeEntry(isDebit, index) runs.
ClickRemoveEntry(isDebit, index) ==
    /\ mounted
    /\ activeTab = "entry"
    /\ RowRendered(IF isDebit THEN debitEntries ELSE creditEntries, index)
    /\ IF ~RemoveEntryShown(IF isDebit THEN debitEntries ELSE creditEntries)
       THEN /\ UNCHANGED <<debitEntries, creditEntries>>
            /\ lastOp' = Op("removeEntry", "no-button", 0)
       ELSE /\ debitEntries' = IF isDebit THEN removeEntry(debitEntries, index)
                               ELSE debitEntries
            /\ creditEntries' = IF isDebit THEN creditEntries
                                ELSE removeEntry(creditEntries, index)
            /\ lastOp' = Op("removeEntry", "removed", 0)
    /\ UNCHANGED <<activeTab, accounts, vouchers, aiVars, now, date, description, mounted>>

\* The rows of one side of the form.
Side(isDebit) == IF isDebit THEN debitEntries ELSE creditEntries

\* The first row (counted from 0) at which the rows of a side differ from the
\* rows the user wants there.
FirstDifference(cur, target) ==
    LET m == IF Len(cur) < Len(target) THEN Len(cur) ELSE Len(target)
        d == {i \in 1..m : cur[i] # target[i]}
    IN  IF d = {} THEN m ELSE (CHOOSE i \in d : \A j \in d : i <= j) - 1

\* The next handler call on one side of the user who wants the rows target
\* there: the add-row button while a row is missing, the inputs of the first
\* row that differs (account, amount, description), the remove button of a
\* row too many.
TypeRow(isDebit, target) ==
    LET cur   == Side(isDebit)
        index == FirstDifference(cur, target)
    IN  IF index >= Len(cur) THEN ClickAddEntry(isDebit)
        ELSE IF index >= Len(target) THEN ClickRemoveEntry(isDebit, index)
        ELSE IF cur[index + 1].accountId # target[index + 1].accountId
        THEN ChangeEntry(isDebit, index, "accountId", target[index + 1].accountId)
        ELSE IF cur[index + 1].amount # target[index + 1].amount
        THEN ChangeEntry(isDebit, index, "amount", target[index + 1].amount)
        ELSE ChangeEntry(isDebit, index, "description", target[index + 1].description)

\* The user goes through the inputs of the form to leave it with the contents
\* f, one handler call at a time: setDate, setDescription, then the debit rows
\* and the credit rows.  Each call is a step of its own, and every other
\* gesture (the register button, a tab, a reversal) may come between two of
\* them.  An input that already shows what the user wants is passed over: the
\* call would write the value it reads.
TypeNext(f) ==
    IF date # f.date THEN SetDate(f.date)
    ELSE IF description # f.description THEN SetDescription(f.description)
    ELSE IF debitEntries # f.debitEntries THEN TypeRow(TRUE, f.debitEntries)
    ELSE IF creditEntries # f.creditEntries THEN TypeRow(FALSE, f.creditEntries)
    ELSE FALSE

\* The rows of the form as VoucherEntryView mounts them and as handleSubmit
\* leaves them.
RowsFresh ==
    /\ debitEntries = <<BlankEntry(accounts)>>
    /\ creditEntries = <<BlankEntry(accounts)>>

\* The rows of the form are those of one of the forms fs, every input typed.
RowsTyped(fs) ==
    \E g \in fs : debitEntries = g.debitEntries /\ creditEntries = g.creditEntries

\* The form shows one of the forms fs, every input typed.
FormTyped(fs) ==
    \E g \in fs :
        /\ date = g.date
        /\ description = g.description
        /\ debitEntries = g.debitEntries
        /\ creditEntries = g.creditEntries

\* Every voucher of the history is one of the forms fs registered with every
\* input typed (handleSubmit's copy of the form), or a reversal (an id that
\* reverseVoucher builds).
HistoryTyped(fs) ==
    \A k \in 1..Len(vouchers) :
        \/ vouchers[k].id = "rev-" \o ToString(vouchers[k].createdAt)
        \/ \E g \in fs :
              vouchers[k] = SubmittedVoucher(vouchers[k].createdAt, g.date, g.description,
                                             g.debitEntries, g.creditEntries)

\* The user who types the forms fs, one handler call a step.  A voucher is
\* begun on fresh rows, or, before the first voucher is registered, over the
\* rows of a finished form; once its date and description are typed, its rows
\* are gone through to the end.
TypeForm(fs) ==
    \E f \in fs :
        /\ \/ RowsFresh
           \/ vouchers = <<>> /\ RowsTyped(fs)
           \/ date = f.date /\ description = f.description
        /\ TypeNext(f)

\* What handleSubmit answers on the form's contents.
handleSubmitResult(debits, credits, desc) ==
    IF ~isBalanced(debits, credits) THEN "imbalance"
    ELSE IF Trim(desc) = "" THEN "no-description"
    ELSE "registered"

\* disabled={!isBalanced || aiLoading}: what C20 would face if the register
\* button waited for the AI request like the suggest buttons do.
SubmitDisabledWhileLoading(debits, credits) == aiLoading \/ ~isBalanced(debits, credits)

\* <button onClick={handleSubmit} disabled={!isBalanced}>
SubmitDisabled(debits, credits) == ~isBalanced(debits, credits)

\* A press of the register button.  A disabled button runs no handler.
ClickSubmit ==
    /\ mounted
    /\ activeTab = "entry"
    /\ LET result == IF SubmitDisabled(debitEntries, creditEntries) THEN "disabled"
                     ELSE handleSubmitResult(debitEntries, creditEntries, description)
       IN  /\ lastOp' = Op("submit", result, 0)
           /\ IF result = "registered"
              THEN /\ vouchers' = addVoucher(vouchers,
                          SubmittedVoucher(now, date, description, debitEntries, creditEntries))
                   /\ description' = ""
                   /\ debitEntries' = <<BlankEntry(accounts)>>
                   /\ creditEntries' = <<BlankEntry(accounts)>>
                   /\ date' = date
              ELSE UNCHANGED <<vouchers, formVars>>
    /\ UNCHANGED <<activeTab, accounts, aiVars, now, mounted>>

\* The register button in the runs that type the forms fs.  The first voucher
\* is registered at any point of its typing; a voucher registered on an
\* unfinished form is followed no further than its place in the history, the
\* vouchers of finished forms up to the length the run allows.
SubmitForm(fs) ==
    /\ vouchers = <<>> \/ (FormTyped(fs) /\ HistoryTyped(fs))
    /\ ClickSubmit

\* The reverse button of row k of the recent-vouchers table:
\*   if (confirm(...)) onReverse(v)
ClickReverse(k, confirmed) ==
    /\ mounted
    /\ activeTab = "entry"
    /\ k \in 1..Len(vouchers)
    /\ k <= RecentShown
    /\ IF confirmed
       THEN /\ vouchers' = addVoucher(vouchers, reverseVoucher(vouchers[k], now))
            /\ lastOp' = Op("reverse", "reversed", k)
       ELSE UNCHANGED <<vouchers, lastOp>>
    /\ UNCHANGED <<activeTab, accounts, formVars, aiVars, now, mounted>>

\* The reverse button in the runs that type the forms fs: the reversals in a
\* history of finished forms.
ReverseForm(fs, k, confirmed) ==
    /\ HistoryTyped(fs)
    /\ ClickReverse(k, confirmed)

\* addAccount without its check of the code against the chart: what C11 would
\* face.
addAccountResultNoDuplicateCheck(accts, in) ==
    IF in.code = <<>> \/ in.name = "" THEN "missing-input" ELSE "added"

\* addAccount without its check for missing input: what C12 would face.
addAccountResultNoInputCheck(accts, in) ==
    IF \E i \in 1..Len(accts) : accts[i].code = in.code THEN "duplicate-code"
    ELSE "added"

\* What SettingsView.addAccount answers on the new-account inputs.
addAccountResult(accts, in) ==
    IF in.code = <<>> \/ in.name = "" THEN "missing-input"
    ELSE IF \E i \in 1..Len(accts) : accts[i].code = in.code THEN "duplicate-code"
    ELSE "added"

\* A press of the register button of SettingsView.
ClickAddAccount(in) ==
    /\ mounted
    /\ activeTab = "settings"
    /\ lastOp' = Op("addAccount", addAccountResult(accounts, in), 0)
    /\ accounts' = IF addAccountResult(accounts, in) = "added"
                   THEN addAccount(accounts, in.code, in.name, in.type, now)
                   ELSE accounts
    /\ UNCHANGED <<activeTab, vouchers, formVars, aiVars, now, mounted>>

\* The user reaches for the delete button of the row of account a.  The row of
\* a standard account shows no button; otherwise removeAccount(a.id) runs:
\*   if (!confirm(...)) return; setAccounts(prev => prev.filter(...))
ClickRemoveAccount(a, confirmed) ==
    /\ mounted
    /\ activeTab = "settings"
    /\ IF ~RemoveButtonShown(a)
       THEN /\ accounts' = accounts
            /\ lastOp' = Op("removeAccount", "no-button", 0)
       ELSE IF ~confirmed
       THEN UNCHANGED <<accounts, lastOp>>
       ELSE /\ accounts' = removeAccount(accounts, a.id)
            /\ lastOp' = Op("removeAccount", "removed", 0)
    /\ UNCHANGED <<activeTab, vouchers, formVars, aiVars, now, mounted>>

\* The suggest button of row index of one side: handleSuggest(isDebit, index)
\* up to its await.  suggestAccount returns at once on an empty description.
ClickSuggest(isDebit, index) ==
    /\ mounted
    /\ activeTab = "entry"
    /\ ~aiLoading
    /\ RowRendered(Side(isDebit), index)
    /\ IF OrElse(Side(isDebit)[index + 1].description, description) = ""
       THEN /\ UNCHANGED <<aiLoading, pending>>
            /\ lastOp' = Op("suggest", "no-description", index)
       ELSE /\ aiLoading' = TRUE
            /\ pending' = pending \cup {SuggestRequest(isDebit, index, accounts)}
            /\ lastOp' = Op("suggest", "requested", index)
    /\ UNCHANGED <<activeTab, accounts, vouchers, formVars, aiAdvice, now, mounted>>

\* The account suggestAccount returns: none (<<>>) when the request throws or
\* the name is not one of the candidates.
Suggested(req, outcome) ==
    IF outcome = "error" THEN <<>> ELSE FindByName(req.candidates, outcome)

\* The suggestion request ends: suggestAccount's finally, then the rest of
\* handleSuggest.  Once the tree is unmounted the state setters reach nothing.
SuggestResponse(req, outcome) ==
    /\ req \in pending
    /\ req.kind = "suggest"
    /\ pending' = pending \ {req}
    /\ aiLoading' = IF mounted THEN FALSE ELSE aiLoading
    /\ IF Suggested(req, outcome) # <<>> /\ req.live /\ mounted
       THEN /\ debitEntries' =
                  IF req.isDebit
                  THEN updateEntry(debitEntries, req.index, "accountId",
                                   Suggested(req, outcome)[1].id)
                  ELSE debitEntries
            /\ creditEntries' =
                  IF req.isDebit THEN creditEntries
                  ELSE updateEntry(creditEntries, req.index, "accountId",
                                   Suggested(req, outcome)[1].id)
            /\ mounted' = FormRenders(debitEntries', creditEntries')
       ELSE UNCHANGED <<debitEntries, creditEntries, mounted>>
    /\ UNCHANGED <<activeTab, accounts, vouchers, aiAdvice, date, description, now, lastOp>>

\* The analysis button with disabled={tbData.length === 0}: what C30 would
\* face if the button did not look at the loading flag.
ClickAdviceWhileLoading ==
    /\ mounted
    /\ activeTab = "tb"
    /\ tbData(vouchers, accounts) # <<>>
    /\ aiLoading' = TRUE
    /\ aiAdvice' = NoAdvice
    /\ pending' = pending \cup {AdviceRequest}
    /\ lastOp' = Op("advice", "requested", 0)
    /\ UNCHANGED <<activeTab, accounts, vouchers, formVars, now, mounted>>

\* The analysis button of TrialBalanceView: getManagementAdvice up to its await.
\*   disabled={aiLoading || tbData.length === 0}
ClickAdvice ==
    /\ mounted
    /\ activeTab = "tb"
    /\ ~aiLoading
    /\ tbData(vouchers, accounts) # <<>>
    /\ aiLoading' = TRUE
    /\ aiAdvice' = NoAdvice
    /\ pending' = pending \cup {AdviceRequest}
    /\ lastOp' = Op("advice", "requested", 0)
    /\ UNCHANGED <<activeTab, accounts, vouchers, formVars, now, mounted>>

\* The text getManagementAdvice shows for an outcome of the request.
AdviceShown(outcome) ==
    IF outcome = "error" THEN AdviceErrorFallback
    ELSE IF outcome = "" THEN AdviceEmptyFallback
    ELSE outcome

\* The advice request ends.
AdviceResponse(req, outcome) ==
    /\ req \in pending
    /\ req.kind = "advice"
    /\ pending' = pending \ {req}
    /\ aiAdvice' = IF mounted THEN AdviceShown(outcome) ELSE aiAdvice
    /\ aiLoading' = IF mounted THEN FALSE ELSE aiLoading
    /\ UNCHANGED <<activeTab, accounts, vouchers, formVars, now, lastOp, mounted>>

\* The rows of SettingsView the model reaches for: the first row of the chart
\* (a standard account) and every account the user added.
RemoveTargets ==
    {accounts[i] : i \in {j \in 1..Len(accounts) : j = 1 \/ ~accounts[j].isStandard}}

\* The journal alone, on the seed chart: the gestures of the header, the entry
\* form and the recent-vouchers table.  These runs go one voucher deeper than
\* the runs that also change the chart.  The forms are typed one handler call
\* at a time, and the other gestures come between the calls.
NextJournal ==
    \/ Tick
    \/ \E tab \in TabType : SetActiveTab(tab)
    \/ TypeForm(BalancedFormInputs \cup RejectedFormInputs)
    \/ (Len(vouchers) <= MaxVouchers
           /\ SubmitForm(BalancedFormInputs \cup RejectedFormInputs))
    \/ \E k \in 1..Len(vouchers), confirmed \in BOOLEAN :
          Len(vouchers) <= MaxVouchers
              /\ ReverseForm(BalancedFormInputs \cup RejectedFormInputs, k, confirmed)

SpecJournal == Init /\ [][NextJournal]_vars

\* The books: the vouchers the register button accepts and their reversals,
\* read in the general ledger, the trial balance and the statements.  The
\* clock is followed up to the first voucher of a run.
NextBooks ==
    \/ (vouchers = <<>> /\ Tick)
    \/ \E tab \in {"entry", "ledger", "tb", "fs"} : SetActiveTab(tab)
    \/ TypeForm(BalancedFormInputs)
    \/ (Len(vouchers) <= MaxVouchers /\ SubmitForm(BalancedFormInputs))
    \/ \E k \in 1..Len(vouchers), confirmed \in BOOLEAN :
          Len(vouchers) <= MaxVouchers
              /\ ReverseForm(BalancedFormInputs, k, confirmed)

SpecBooks == Init /\ [][NextBooks]_vars

\* Cash moved between the till and the bank and back: the same accounts on
\* both sides, two debit rows of one account, rows with and without a line
\* description.
TransferFormInput ==
    [ date |-> 0, description |-> "transfer",
      debitEntries  |-> <<JournalEntry("101", 1, "float"), JournalEntry("102", 1, ""),
                          JournalEntry("101", 1, "")>>,
      creditEntries |-> <<JournalEntry("101", 2, ""), JournalEntry("102", 1, "fee")>> ]

\* What the user types in the runs that read the ledger line by line.
LedgerFormInputs == {TransferFormInput, SaleFormInput}

\* The journal on the seed chart with vouchers that post to one account on
\* both sides.
NextLedger ==
    \/ Tick
    \/ \E tab \in {"entry", "ledger"} : SetActiveTab(tab)
    \/ TypeForm(LedgerFormInputs)
    \/ (Len(vouchers) <= MaxVouchers /\ SubmitForm(LedgerFormInputs))
    \/ \E k \in 1..Len(vouchers), confirmed \in BOOLEAN :
          Len(vouchers) <= MaxVouchers
              /\ ReverseForm(LedgerFormInputs, k, confirmed)

SpecLedger == Init /\ [][NextLedger]_vars

\* The chart of accounts alone: the gestures of the header and the settings
\* view.
NextChart ==
    \/ Tick
    \/ \E tab \in TabType : SetActiveTab(tab)
    \/ \E in \in SettingsInputs : ClickAddAccount(in)
    \/ \E a \in RemoveTargets, confirmed \in BOOLEAN : ClickRemoveAccount(a, confirmed)

SpecChart == Init /\ [][NextChart]_vars

\* The entry form edited input by input and row by row, up to its first
\* registered voucher, and the reversals of that voucher; the date input is
\* followed once the history is full.
NextForm ==
    \/ \E tab \in {"entry", "ledger"} : SetActiveTab(tab)
    \/ SetDescription("sale")
    \/ (Len(vouchers) = MaxVouchers /\ SetDate(1))
    \/ \E isDebit \in BOOLEAN, index \in 0..(MaxRows - 1) :
          ChangeEntry(isDebit, index, "amount", 1)
    \/ \E isDebit \in BOOLEAN :
          Len(IF isDebit THEN debitEntries ELSE creditEntries) < MaxRows
              /\ ClickAddEntry(isDebit)
    \/ \E isDebit \in BOOLEAN, index \in 0..(MaxRows - 1) : ClickRemoveEntry(isDebit, index)
    \/ (vouchers = <<>> /\ ClickSubmit)
    \/ \E k \in 1..Len(vouchers), confirmed \in BOOLEAN :
          Len(vouchers) < MaxVouchers /\ ClickReverse(k, confirmed)

SpecForm == Init /\ [][NextForm]_vars

\* The journal and the chart of accounts together: the gestures of the header,
\* the entry form, the recent-vouchers table and the settings view, with the
\* inputs the handlers accept.  The chart holds one added account at a time.
Next ==
    \/ Tick
    \/ \E tab \in TabType : SetActiveTab(tab)
    \/ TypeForm({SaleFormInput} \cup CustomFormInputs(accounts))
    \/ (Len(vouchers) < MaxVouchers
           /\ SubmitForm({SaleFormInput} \cup CustomFormInputs(AddedAccounts)))
    \/ \E k \in 1..Len(vouchers), confirmed \in BOOLEAN :
          Len(vouchers) < MaxVouchers
              /\ ReverseForm({SaleFormInput} \cup CustomFormInputs(AddedAccounts),
                             k, confirmed)
    \/ \E in \in ValidNewAccountInputs \cup RejectedNewAccountInputs :
          (in \in RejectedNewAccountInputs \/ CustomIds(accounts) = {})
              /\ ClickAddAccount(in)
    \/ \E a \in {r \in RemoveTargets : RemoveButtonShown(r)}, confirmed \in BOOLEAN :
          ClickRemoveAccount(a, confirmed)

Spec == Init /\ [][Next]_vars

\* The journal on a chart that grows: accounts are added one after the other,
\* at one reading of the clock or at several, and vouchers are posted to them.
NextGrowingChart ==
    \/ Tick
    \/ \E tab \in {"entry", "ledger", "settings"} : SetActiveTab(tab)
    \/ TypeForm({SaleFormInput} \cup CustomFormInputs(accounts))
    \/ (Len(vouchers) < MaxVouchers
           /\ SubmitForm({SaleFormInput} \cup CustomFormInputs(AddedAccounts)))
    \/ \E in \in ValidNewAccountInputs : ClickAddAccount(in)

SpecGrowingChart == Init /\ [][NextGrowingChart]_vars

\* The user takes a row away while a suggestion of the form is awaited.
RemoveRowInFlight ==
    /\ SuggestionInFlight
    /\ \E isDebit \in BOOLEAN, index \in 0..(MaxRows - 1) : ClickRemoveEntry(isDebit, index)

NewAccountInputsAI == {[code |-> <<5,1,0,8>>, name |-> "sharyo-hokenryo", type |-> "EXPENSE"]}

\* Every gesture, and the AI requests with their responses.  The form is
\* typed one handler call at a time, with a request pending or without, so
\* that a response arrives before or after any of the calls.  The first
\* voucher is registered and then reversed.
NextAI ==
    \/ Tick
    \/ \E tab \in TabType : SetActiveTab(tab)
    \/ TypeNext(SaleFormInput)
    \/ (vouchers = <<>> /\ ClickSubmit)
    \/ \E k \in 1..Len(vouchers), confirmed \in BOOLEAN :
          Len(vouchers) < MaxVouchers /\ ClickReverse(k, confirmed)
    \/ \E in \in NewAccountInputsAI : ClickAddAccount(in)
    \/ \E a \in {r \in RemoveTargets : RemoveButtonShown(r)}, confirmed \in BOOLEAN :
          ClickRemoveAccount(a, confirmed)
    \/ \E isDebit \in BOOLEAN, index \in 0..1 : ClickSuggest(isDebit, index)
    \/ \E req \in pending, outcome \in SuggestedNames \cup {"error"} :
          SuggestResponse(req, outcome)
    \/ ClickAdvice
    \/ \E req \in pending, outcome \in {AdviceText, "", "error"} :
          AdviceResponse(req, outcome)

SpecAI == Init /\ [][NextAI]_vars

\* The journal on the seed chart, with the AI requests in flight next to it:
\* the form may change, be submitted or be unmounted between the press of a
\* suggest or analysis button and the response.  The form is typed one
\* handler call at a time, with a request pending or without, so that a
\* response arrives before or after any of the calls; rows are taken away
\* under a pending suggestion while the history is still empty.  The first
\* voucher is registered and then reversed.
NextAssist ==
    \/ \E tab \in {"entry", "tb"} : SetActiveTab(tab)
    \/ TypeNext(TollFormInput)
    \/ (vouchers = <<>> /\ RemoveRowInFlight)
    \/ (vouchers = <<>> /\ ClickSubmit)
    \/ \E k \in 1..Len(vouchers), confirmed \in BOOLEAN :
          Len(vouchers) < MaxVouchers /\ ClickReverse(k, confirmed)
    \/ \E isDebit \in BOOLEAN, index \in 0..1 : ClickSuggest(isDebit, index)
    \/ \E req \in pending, outcome \in SuggestedNames \cup {"error"} :
          SuggestResponse(req, outcome)
    \/ ClickAdvice
    \/ \E req \in pending, outcome \in {AdviceText, "", "error"} :
          AdviceResponse(req, outcome)

SpecAssist == Init /\ [][NextAssist]_vars

\* The provider never answers a request: the promise of generateContent stays
\* pending.  Neither function sets a timeout or passes an abort signal, so
\* nothing of the program ends the wait; the catch and finally blocks run only
\* when the promise settles.
RequestLost(req) ==
    /\ req \in pending
    /\ req.kind \in {"suggest", "advice"}
    /\ pending' = (pending \ {req}) \cup {[req EXCEPT !.kind = "lost"]}
    /\ UNCHANGED <<activeTab, accounts, vouchers, formVars, aiLoading, aiAdvice, now,
                   lastOp, mounted>>

\* The same gestures, and requests the provider answers or never answers.
NextAssistFair ==
    \/ NextAssist
    \/ \E req \in pending : RequestLost(req)

\* A response that the provider sends is delivered: once the promise of
\* generateContent settles, the event loop runs the rest of the async function
\* (catch, finally, and the rest of handleSuggest).  Nothing is assumed about
\* the requests the provider never answers.
SpecAssistFair ==
    /\ Init
    /\ [][NextAssistFair]_vars
    /\ WF_vars(\E req \in pending, outcome \in SuggestedNames \cup {"error"} :
                  SuggestResponse(req, outcome))
    /\ WF_vars(\E req \in pending, outcome \in {AdviceText, "", "error"} :
                  AdviceResponse(req, outcome))

\* ================================================================= claims
\* C1: every voucher held in the history has a debit sum equal to its credit
\* sum, and that sum is greater than 0.
C1_VouchersBalanced ==
    \A i \in 1..Len(vouchers) :
        /\ totalDebit(vouchers[i].debitEntries) = totalCredit(vouchers[i].creditEntries)
        /\ totalDebit(vouchers[i].debitEntries) > 0

\* A history of three: a two-row voucher, a one-row voucher and, last added,
\* the reversal of the two-row one.
C1_Witness ==
    /\ Len(vouchers) = 3
    /\ lastOp = Op("reverse", "reversed", 2)
    /\ Len(vouchers[3].debitEntries) = 2
    /\ totalDebit(vouchers[1].debitEntries) = 3

\* C2: a press of the register button on a form whose debit total differs from
\* its credit total, or whose totals are both 0, leaves the voucher history
\* (length and contents) and the chart of accounts as they were.
C2_ImbalancedRejected ==
    [][ ( /\ ClickSubmit
          /\ \/ totalDebit(debitEntries) # totalCredit(creditEntries)
             \/ (totalDebit(debitEntries) = 0 /\ totalCredit(creditEntries) = 0) )
        => (vouchers' = vouchers /\ accounts' = accounts) ]_vars

\* The register button was pressed on debit 2 against credit 1, with a voucher
\* already in the history.
C2_Witness ==
    /\ lastOp.op = "submit"
    /\ lastOp.result # "registered"
    /\ totalDebit(debitEntries) = 2
    /\ totalCredit(creditEntries) = 1
    /\ Len(vouchers) >= 1

\* C3: in every reachable state, the debitTotal of the trial-balance rows and
\* their creditTotal sum to the same amount.
C3_TrialBalanceBalances ==
    totals(tbData(vouchers, accounts)).debit = totals(tbData(vouchers, accounts)).credit

\* C4: for every account of the chart, the running balance on the last line of
\* its ledger (0 for an empty ledger) is the net balance of its trial-balance
\* row (0 when the row is omitted from the report).
C4_LedgerMeetsTrialBalance ==
    \A i \in 1..Len(accounts) :
        LedgerFinalBalance(vouchers, accounts, accounts[i].id)
            = IF tbShown(tbRow(accounts[i], vouchers))
              THEN tbRow(accounts[i], vouchers).balance
              ELSE 0

\* C5: the statement's netIncome is the sum of the trial-balance net balances
\* of the REVENUE rows minus the sum of those of the EXPENSE rows.
C5_NetIncomeFromTrialBalance ==
    LET tb  == tbData(vouchers, accounts)
        rev == SelectSeq(tb, LAMBDA r : r.type = "REVENUE")
        exp == SelectSeq(tb, LAMBDA r : r.type = "EXPENSE")
    IN  statement(vouchers, accounts).netIncome
            = SumSeq([i \in 1..Len(rev) |-> rev[i].balance])
              - SumSeq([i \in 1..Len(exp) |-> exp[i].balance])

\* The trial balance reports a REVENUE row and an EXPENSE row, and the net
\* income is not zero.
C5_Witness ==
    LET tb == tbData(vouchers, accounts)
    IN  /\ \E i \in 1..Len(tb) : tb[i].type = "REVENUE" /\ tb[i].balance # 0
        /\ \E i \in 1..Len(tb) : tb[i].type = "EXPENSE" /\ tb[i].balance # 0
        /\ statement(vouchers, accounts).netIncome # 0

\* C6: when the last gesture reversed the voucher v of row arg, the voucher
\* added at the head has v's credit entries as its debit entries and v's debit
\* entries as its credit entries: the same entries (accountId, amount, line
\* description) in the same order.
C6_ReversalSwapsSides ==
    (lastOp.op = "reverse" /\ lastOp.result = "reversed") =>
        /\ vouchers[1].debitEntries = vouchers[lastOp.arg + 1].creditEntries
        /\ vouchers[1].creditEntries = vouchers[lastOp.arg + 1].debitEntries

\* A two-row voucher with line descriptions, whose sides differ, was reversed.
C6_Witness ==
    /\ lastOp.op = "reverse"
    /\ lastOp.result = "reversed"
    /\ Len(vouchers[1].debitEntries) = 2
    /\ vouchers[1].debitEntries # vouchers[1].creditEntries
    /\ vouchers[1].debitEntries[2].description = "capital"

\* C7: when the last gesture reversed the voucher v of row arg, every account of
\* the chart that v touches has the trial-balance net balance, and the final
\* ledger balance, that it has in the history without v and its reversal.
C7_ReversalCancels ==
    (lastOp.op = "reverse" /\ lastOp.result = "reversed") =>
        LET v       == vouchers[lastOp.arg + 1]
            without == [i \in 1..(lastOp.arg - 1) |-> vouchers[i + 1]]
                       \o [i \in 1..(Len(vouchers) - lastOp.arg - 1) |->
                              vouchers[i + lastOp.arg + 1]]
            touched == {v.debitEntries[i].accountId : i \in 1..Len(v.debitEntries)}
                       \cup {v.creditEntries[i].accountId : i \in 1..Len(v.creditEntries)}
        IN  \A i \in 1..Len(accounts) :
                accounts[i].id \in touched =>
                    /\ tbRow(accounts[i], vouchers).balance
                           = tbRow(accounts[i], without).balance
                    /\ LedgerFinalBalance(vouchers, accounts, accounts[i].id)
                           = LedgerFinalBalance(without, accounts, accounts[i].id)

\* The older of two vouchers was reversed; the newer one posts to an account
\* the reversed one touches, so that account's balance is not zero.
C7_Witness ==
    /\ lastOp = Op("reverse", "reversed", 2)
    /\ Len(vouchers) = 3
    /\ Len(vouchers[3].debitEntries) = 2
    /\ tbRow(accounts[1], vouchers).balance # 0
    /\ \E i \in 1..2 : vouchers[3].debitEntries[i].accountId = accounts[1].id

\* C8: no step removes or alters a voucher of the history: the history after
\* the step ends with the history before it, and is longer by at most one; a
\* registered submission and a confirmed reversal make it longer by exactly
\* one, and the reversed voucher stays as it was, one row further down.
C8_HistoryAppendOnly ==
    [][ /\ Len(vouchers') \in {Len(vouchers), Len(vouchers) + 1}
        /\ \A i \in 1..Len(vouchers) :
               vouchers'[i + (Len(vouchers') - Len(vouchers))] = vouchers[i]
        /\ (lastOp' = Op("submit", "registered", 0) /\ ClickSubmit)
               => Len(vouchers') = Len(vouchers) + 1
        /\ \A k \in 1..Len(vouchers) :
               (lastOp' = Op("reverse", "reversed", k) /\ ClickReverse(k, TRUE))
                   => /\ Len(vouchers') = Len(vouchers) + 1
                      /\ vouchers'[k + 1] = vouchers[k] ]_vars

\* With advice shown and an account added, the history holds a voucher and
\* its reversal.
C8_Witness ==
    /\ lastOp = Op("reverse", "reversed", 1)
    /\ Len(vouchers) = 2
    /\ aiAdvice # NoAdvice
    /\ Len(accounts) > Len(LOGISTICS_ACCOUNTS)

\* C9: the ASSET amounts shown on the balance sheet sum to the LIABILITY and
\* EQUITY amounts shown plus netIncome.
C9_BalanceSheetBalances ==
    LET st     == statement(vouchers, accounts)
        assets == bsAssets(st)
        liabEq == bsLiabilitiesAndEquity(st)
    IN  SumSeq([i \in 1..Len(assets) |-> assets[i].amount])
            = SumSeq([i \in 1..Len(liabEq) |-> liabEq[i].amount]) + st.netIncome

\* C10: every seed account is in the chart in every reachable state, and
\* reaching for the delete control of a standard account leaves the chart as
\* it was.
C10_StandardAccountsStay ==
    /\ [](\A i \in 1..Len(LOGISTICS_ACCOUNTS) :
              \E j \in 1..Len(accounts) : accounts[j] = LOGISTICS_ACCOUNTS[i])
    /\ [][ \A j \in 1..Len(accounts), confirmed \in BOOLEAN :
               (accounts[j].isStandard /\ ClickRemoveAccount(accounts[j], confirmed))
                   => accounts' = accounts ]_vars

\* The delete control of a standard account was reached for while the chart
\* also held an account the user added at clock reading 1.
C10_Witness ==
    /\ lastOp = Op("removeAccount", "no-button", 0)
    /\ Len(accounts) = Len(LOGISTICS_ACCOUNTS) + 1
    /\ \E j \in 1..Len(accounts) : accounts[j].id = "acc-1"

\* C11: no two accounts of the chart have the same code, in every reachable
\* state; a press of the register button of the settings view with a code the
\* chart already holds leaves the chart as it was.
C11_CodesUnique ==
    /\ [](\A i, j \in 1..Len(accounts) :
              accounts[i].code = accounts[j].code => i = j)
    /\ [][ \A in \in SettingsInputs :
               ( /\ \E i \in 1..Len(accounts) : accounts[i].code = in.code
                 /\ ClickAddAccount(in) )
                   => accounts' = accounts ]_vars

\* The code of an account the user added was entered a second time, while the
\* chart held two added accounts.
C11_Witness ==
    /\ lastOp = Op("addAccount", "duplicate-code", 0)
    /\ Len(accounts) = Len(LOGISTICS_ACCOUNTS) + 2
    /\ \E j \in 1..Len(accounts) :
           ~accounts[j].isStandard /\ accounts[j].code = <<5,1,0,8>>

\* C12: a press of the register button of the settings view with an empty code
\* or an empty name leaves the chart of accounts and the voucher history as
\* they were.
C12_MissingInputRejected ==
    [][ \A in \in SettingsInputs :
           ( /\ in.code = <<>> \/ in.name = ""
             /\ ClickAddAccount(in) )
               => (accounts' = accounts /\ vouchers' = vouchers) ]_vars

\* Input without a code or a name was refused while the history held a voucher
\* and the chart an added account.
C12_Witness ==
    /\ lastOp = Op("addAccount", "missing-input", 0)
    /\ Len(vouchers) >= 1
    /\ Len(accounts) > Len(LOGISTICS_ACCOUNTS)

\* C13: in every reachable state the chart is in ascending order of code (the
\* order of localeCompare): no account is followed by one with a smaller code.
C13_ChartSorted ==
    \A i, j \in 1..Len(accounts) :
        i < j => ~CodeLess(accounts[j].code, accounts[i].code)

\* After a removal, the chart holds an added account between two seed accounts
\* and the two-digit code after "5107".
C13_Witness ==
    /\ lastOp = Op("removeAccount", "removed", 0)
    /\ \E j \in 2..(Len(accounts) - 1) :
           /\ accounts[j].code = <<2,3,0,1>>
           /\ accounts[j + 1].isStandard
    /\ accounts[Len(accounts)].code = <<5,2>>

\* C14: no two vouchers of the history have the same id, in every reachable
\* state.
C14_VoucherIdsUnique ==
    \A i, j \in 1..Len(vouchers) : vouchers[i].id = vouchers[j].id => i = j

\* C15 as stated: an account of the chart has an item in the financial
\* statements exactly when the trial balance reports a row for it.
C15_SameFilter ==
    \A i \in 1..Len(accounts) :
        fsShown(fsItem(accounts[i], vouchers)) <=> tbShown(tbRow(accounts[i], vouchers))

\* C15 as amended: the items of the financial statements are the trial-balance
\* rows whose net balance is not zero, in the order of the chart, with the
\* row's name, net balance and type: the REVENUE and EXPENSE ones as
\* profit-and-loss items, the others as balance-sheet items.
C15_StatementListsNonZeroNet ==
    LET tb      == tbData(vouchers, accounts)
        nonZero == SelectSeq(tb, LAMBDA r : r.balance # 0)
        pl      == SelectSeq(nonZero, LAMBDA r : isProfitAndLoss(r.type))
        bs      == SelectSeq(nonZero, LAMBDA r : ~isProfitAndLoss(r.type))
        st      == statement(vouchers, accounts)
    IN  /\ st.plItems = [i \in 1..Len(pl) |->
                            [name |-> pl[i].name, amount |-> pl[i].balance, type |-> pl[i].type]]
        /\ st.bsItems = [i \in 1..Len(bs) |->
                            [name |-> bs[i].name, amount |-> bs[i].balance, type |-> bs[i].type]]

\* The trial balance reports a row with equal debit and credit totals, which
\* the statements leave out, next to rows the statements list.
C15_Witness ==
    LET tb == tbData(vouchers, accounts)
        st == statement(vouchers, accounts)
    IN  /\ \E i \in 1..Len(tb) : tb[i].debitTotal = tb[i].creditTotal
        /\ st.plItems # <<>>
        /\ st.bsItems # <<>>

\* C16: the ledger of every account of the chart is the same sequence of
\* lines, with the same running balances, for the history as stored and for
\* the same vouchers held in any other order.
C16_LedgerIgnoresStorageOrder ==
    LET n      == Len(vouchers)
        orders == {p \in [1..n -> 1..n] : \A a, b \in 1..n : p[a] = p[b] => a = b}
    IN  \A p \in orders :
            \A i \in 1..Len(accounts) :
                ledgerLines([k \in 1..n |-> vouchers[p[k]]], accounts, accounts[i].id)
                    = ledgerLines(vouchers, accounts, accounts[i].id)

\* C17: every voucher of the history has at least one debit entry and at
\* least one credit entry, in every reachable state.
C17_SidesNotEmpty ==
    \A i \in 1..Len(vouchers) :
        /\ Len(Visited(vouchers[i].debitEntries)) >= 1
        /\ Len(Visited(vouchers[i].creditEntries)) >= 1

\* With a voucher of two debit rows and one credit row and its reversal in the
\* history, the user reached for the remove button of a side of one row.
C17_Witness ==
    /\ lastOp = Op("removeEntry", "no-button", 0)
    /\ Len(vouchers) = 2
    /\ Len(vouchers[2].debitEntries) = 2
    /\ Len(vouchers[2].creditEntries) = 1
    /\ Len(vouchers[1].debitEntries) = 1

\* C18: every step of an AI request leaves the chart of accounts and the
\* voucher history as they were.  A step of a suggestion request (the press of
\* a suggest button, the response, the failure) changes, besides the loading
\* flag, at most the accountId of one row of the form: each side keeps its
\* rows, and every row its amount and its line description.  A step of an
\* advice request changes only the advice text and the loading flag.
C18_AIRequestsFrame ==
    [][ /\ ( /\ pending' # pending \/ lastOp'.op = "suggest"
             /\ \/ \E isDebit \in BOOLEAN, index \in 0..1 : ClickSuggest(isDebit, index)
                \/ \E req \in pending, outcome \in SuggestedNames \cup {"error"} :
                      SuggestResponse(req, outcome) )
           => /\ accounts' = accounts
              /\ vouchers' = vouchers
              /\ <<activeTab, aiAdvice, date, description>>'
                     = <<activeTab, aiAdvice, date, description>>
              /\ Len(debitEntries') = Len(debitEntries)
              /\ Len(creditEntries') = Len(creditEntries)
              /\ \A i \in 1..Len(debitEntries) :
                     [debitEntries'[i] EXCEPT !.accountId = debitEntries[i].accountId]
                         = debitEntries[i]
              /\ \A i \in 1..Len(creditEntries) :
                     [creditEntries'[i] EXCEPT !.accountId = creditEntries[i].accountId]
                         = creditEntries[i]
              /\ Cardinality({i \in 1..Len(debitEntries) : debitEntries'[i] # debitEntries[i]})
                   + Cardinality({i \in 1..Len(creditEntries) :
                                     creditEntries'[i] # creditEntries[i]}) <= 1
        /\ ( /\ pending' # pending
             /\ \/ ClickAdvice
                \/ \E req \in pending, outcome \in {AdviceText, "", "error"} :
                      AdviceResponse(req, outcome) )
           => /\ accounts' = accounts
              /\ vouchers' = vouchers
              /\ <<activeTab, date, description, debitEntries, creditEntries>>'
                     = <<activeTab, date, description, debitEntries, creditEntries>> ]_vars

\* C19: when a suggestion request throws, or names no account of the
\* candidates, no account is returned, the rows of the form stay as they were
\* and the loading flag is false afterwards; when an advice request throws or
\* carries no text, the fallback text is shown and the loading flag is false
\* afterwards; and whenever the loading flag is true it is false again later.
C19_SoftFailure ==
    /\ [][ pending' # pending =>
              \A req \in pending :
                  /\ \A outcome \in SuggestedNames \cup {"error"} :
                         ( /\ outcome = "error" \/ FindByName(req.candidates, outcome) = <<>>
                           /\ SuggestResponse(req, outcome) )
                             => /\ Suggested(req, outcome) = <<>>
                                /\ debitEntries' = debitEntries
                                /\ creditEntries' = creditEntries
                                /\ ~aiLoading'
                  /\ AdviceResponse(req, "error")
                         => (aiAdvice' = AdviceErrorFallback /\ ~aiLoading')
                  /\ AdviceResponse(req, "")
                         => (aiAdvice' = AdviceEmptyFallback /\ ~aiLoading') ]_vars
    /\ (aiLoading ~> ~aiLoading)

\* C20: while the loading flag is true, whether or not the request is ever
\* answered, a press of the register button on a balanced form with a
\* description adds the form's voucher to the history, a confirmed press of
\* every reverse button shown adds the reversal, and the tabs of the ledger,
\* the trial balance and the financial statements can be opened.
C20_AIDoesNotBlock ==
    aiLoading =>
        /\ ( /\ activeTab = "entry"
             /\ isBalanced(debitEntries, creditEntries)
             /\ Trim(description) # "" )
               => ENABLED ( /\ ClickSubmit
                            /\ vouchers' = addVoucher(vouchers,
                                   SubmittedVoucher(now, date, description,
                                                    debitEntries, creditEntries)) )
        /\ activeTab = "entry"
               => \A k \in 1..Len(vouchers) :
                      k <= RecentShown
                          => ENABLED ( /\ ClickReverse(k, TRUE)
                                       /\ vouchers' = addVoucher(vouchers,
                                              reverseVoucher(vouchers[k], now)) )
        /\ \A tab \in {"ledger", "tb", "fs"} :
               ENABLED (SetActiveTab(tab) /\ vouchers' = vouchers)

\* A voucher was registered while the suggestion request sent from the same
\* form was still unanswered.
C20_Witness ==
    /\ aiLoading
    /\ lastOp = Op("submit", "registered", 0)
    /\ Len(vouchers) >= 1
    /\ \E req \in pending : req.kind = "suggest" /\ req.live

\* C21: opening the general ledger, the trial balance or the financial
\* statements, which computes the view, leaves the chart of accounts and the
\* voucher history as they were: same vouchers, same order.
C21_ViewsLeaveState ==
    [][ \A tab \in {"ledger", "tb", "fs"} :
           (activeTab' = tab /\ SetActiveTab(tab))
               => (vouchers' = vouchers /\ accounts' = accounts) ]_vars

\* The ledger is open on a history that is not stored in date order.
C21_Witness ==
    /\ activeTab = "ledger"
    /\ Len(vouchers) >= 2
    /\ SortByDate(vouchers) # vouchers

\* C23: the lines of the ledger of every account are in non-decreasing date
\* order, and they are the lines of the vouchers of the history taken by date,
\* vouchers of the same date in the order the history holds them.
C23_LedgerDateOrderStable ==
    LET RECURSIVE ByDate(_)
        \* The vouchers of the dates of D: date after date, those of one date
        \* as the history holds them.
        ByDate(D) ==
            IF D = {} THEN <<>>
            ELSE LET d == CHOOSE x \in D : \A y \in D : x <= y
                 IN  SelectSeq(vouchers, LAMBDA v : v.date = d) \o ByDate(D \ {d})
        ordered  == ByDate({vouchers[k].date : k \in 1..Len(vouchers)})
        shown(l) == <<l.date, l.desc, l.debit, l.credit>>
    IN  \A i \in 1..Len(accounts) :
            LET lines  == ledgerLines(vouchers, accounts, accounts[i].id)
                pushed == AllVoucherLines(ordered, accounts[i].id, TRUE)
            IN  /\ \A a, b \in 1..Len(lines) : a < b => lines[a].date <= lines[b].date
                /\ [k \in 1..Len(lines) |-> shown(lines[k])]
                      = [k \in 1..Len(pushed) |-> shown(pushed[k])]

\* The history is not stored in date order, and two of its vouchers of the
\* same date put different lines in the ledger of one account.
C23_Witness ==
    /\ SortByDate(vouchers) # vouchers
    /\ \E i \in 1..Len(accounts), a, b \in 1..Len(vouchers) :
          /\ a < b
          /\ vouchers[a].date = vouchers[b].date
          /\ VoucherLines(vouchers[a], accounts[i].id, TRUE) # <<>>
          /\ VoucherLines(vouchers[b], accounts[i].id, TRUE) # <<>>
          /\ VoucherLines(vouchers[a], accounts[i].id, TRUE)
                # VoucherLines(vouchers[b], accounts[i].id, TRUE)

\* C24: in the ledger of every account of the chart the running balance of
\* a line is the balance of the line before it (0 before the first line) plus
\* the line's debit minus its credit when the account is an ASSET or an
\* EXPENSE, and plus its credit minus its debit when it is a LIABILITY, EQUITY
\* or REVENUE account.
C24_RunningBalance ==
    \A i \in 1..Len(accounts) :
        LET lines   == ledgerLines(vouchers, accounts, accounts[i].id)
            prev(k) == IF k = 1 THEN 0 ELSE lines[k - 1].balance
        IN  \A k \in 1..Len(lines) :
                lines[k].balance
                    = IF accounts[i].type \in {"ASSET", "EXPENSE"}
                      THEN prev(k) + lines[k].debit - lines[k].credit
                      ELSE prev(k) + lines[k].credit - lines[k].debit

\* C25: the ledger of every account of the chart has one line for each
\* journal entry of the history that references the account and no other
\* line.  Voucher by voucher in date order, the lines are those of the
\* voucher's debit entries that reference the account, in entry order, then
\* those of its credit entries, in entry order.  A debit line shows the amount
\* as debit and 0 as credit, a credit line 0 as debit and the amount as
\* credit, and each line shows the description of its entry, or that of the
\* voucher when the entry has none.
C25_OneLinePerEntry ==
    \A i \in 1..Len(accounts) :
        LET id == accounts[i].id
            refs(entries) == {j \in 1..Len(entries) : entries[j].accountId = id}
            line(v, e, isDebit) ==
                << v.date,
                   IF e.description = "" THEN v.description ELSE e.description,
                   IF isDebit THEN e.amount ELSE 0,
                   IF isDebit THEN 0 ELSE e.amount >>
            RECURSIVE OfSide(_, _, _)
            OfSide(v, entries, isDebit) ==
                IF entries = <<>> THEN <<>>
                ELSE (IF Head(entries).accountId = id
                      THEN <<line(v, Head(entries), isDebit)>> ELSE <<>>)
                     \o OfSide(v, Tail(entries), isDebit)
            RECURSIVE OfVouchers(_)
            OfVouchers(vs) ==
                IF vs = <<>> THEN <<>>
                ELSE OfSide(Head(vs), Head(vs).debitEntries, TRUE)
                     \o OfSide(Head(vs), Head(vs).creditEntries, FALSE)
                     \o OfVouchers(Tail(vs))
            lines == ledgerLines(vouchers, accounts, id)
        IN  /\ Len(lines) = SumSeq([k \in 1..Len(vouchers) |->
                                  Cardinality(refs(vouchers[k].debitEntries))
                                  + Cardinality(refs(vouchers[k].creditEntries))])
            /\ [k \in 1..Len(lines) |->
                    <<lines[k].date, lines[k].desc, lines[k].debit, lines[k].credit>>]
                  = OfVouchers(SortByDate(vouchers))

\* The history holds a voucher with two debit entries and a credit entry on
\* one account, with and without line descriptions, and a voucher of a later
\* date stored before it.
C25_Witness ==
    /\ SortByDate(vouchers) # vouchers
    /\ \E k \in 1..Len(vouchers), i \in 1..Len(accounts) :
          LET ds == Matching(vouchers[k].debitEntries, accounts[i].id)
              cs == Matching(vouchers[k].creditEntries, accounts[i].id)
          IN  /\ Len(ds) >= 2
              /\ Len(cs) >= 1
              /\ \E a, b \in 1..Len(ds) : ds[a].description = "" /\ ds[b].description # ""

\* C26: the trial balance has a row for an account of the chart exactly when
\* the debit entries or the credit entries of the history that reference the
\* account add up to something other than 0; the rows come in chart order, one
\* for each such account, and the accounts without a row are still accounts
\* of the chart.
C26_RowIffActivity ==
    LET RECURSIVE Sum(_, _)
        Sum(entries, id) ==
            IF entries = <<>> THEN 0
            ELSE (IF Head(entries).accountId = id THEN Head(entries).amount ELSE 0)
                 + Sum(Tail(entries), id)
        debits(id)  == SumSeq([k \in 1..Len(vouchers) |-> Sum(vouchers[k].debitEntries, id)])
        credits(id) == SumSeq([k \in 1..Len(vouchers) |-> Sum(vouchers[k].creditEntries, id)])
        active      == SelectSeq(accounts, LAMBDA a : debits(a.id) # 0 \/ credits(a.id) # 0)
        tb          == tbData(vouchers, accounts)
    IN  /\ [k \in 1..Len(tb) |-> tb[k].code] = [k \in 1..Len(active) |-> active[k].code]
        /\ \A i \in 1..Len(accounts) :
              (\E k \in 1..Len(tb) : tb[k].code = accounts[i].code)
                  <=> (debits(accounts[i].id) # 0 \/ credits(accounts[i].id) # 0)

\* The trial balance has a row for an account whose debits and credits
\* cancel and a row for an account with a balance, and the chart holds an
\* account that has no row.
C26_Witness ==
    LET tb == tbData(vouchers, accounts)
    IN  /\ \E k \in 1..Len(tb) : tb[k].balance = 0 /\ tb[k].debitTotal > 0
        /\ \E k \in 1..Len(tb) : tb[k].balance # 0
        /\ \E i \in 1..Len(accounts) :
              \A k \in 1..Len(tb) : tb[k].code # accounts[i].code

\* C27: every row of the trial balance carries, for its account, the sum of
\* the debit entries of the history that reference the account as debitTotal,
\* the sum of the credit entries that reference it as creditTotal, and as
\* balance debitTotal - creditTotal for an ASSET or EXPENSE account and
\* creditTotal - debitTotal for a LIABILITY, EQUITY or REVENUE account.
C27_RowTotals ==
    LET RECURSIVE Sum(_, _)
        Sum(entries, id) ==
            IF entries = <<>> THEN 0
            ELSE (IF Head(entries).accountId = id THEN Head(entries).amount ELSE 0)
                 + Sum(Tail(entries), id)
        debits(id)  == SumSeq([k \in 1..Len(vouchers) |-> Sum(vouchers[k].debitEntries, id)])
        credits(id) == SumSeq([k \in 1..Len(vouchers) |-> Sum(vouchers[k].creditEntries, id)])
        tb          == tbData(vouchers, accounts)
    IN  \A k \in 1..Len(tb) :
            \E i \in 1..Len(accounts) :
                /\ accounts[i].code = tb[k].code
                /\ tb[k].name = accounts[i].name
                /\ tb[k].type = accounts[i].type
                /\ tb[k].debitTotal = debits(accounts[i].id)
                /\ tb[k].creditTotal = credits(accounts[i].id)
                /\ tb[k].balance
                      = IF accounts[i].type \in {"ASSET", "EXPENSE"}
                        THEN debits(accounts[i].id) - credits(accounts[i].id)
                        ELSE credits(accounts[i].id) - debits(accounts[i].id)

\* The trial balance has a row of an asset or expense account with more
\* debits than credits, both above 0, and a row of a liability, equity or
\* revenue account with more credits than debits.
C27_Witness ==
    LET tb == tbData(vouchers, accounts)
    IN  /\ \E k \in 1..Len(tb) :
              /\ tb[k].type \in {"ASSET", "EXPENSE"}
              /\ tb[k].debitTotal > tb[k].creditTotal
              /\ tb[k].creditTotal > 0
        /\ \E k \in 1..Len(tb) :
              /\ tb[k].type \in {"LIABILITY", "EQUITY", "REVENUE"}
              /\ tb[k].creditTotal > tb[k].debitTotal

\* C28: every step that adds a voucher to the history, a submission of the
\* form or a reversal, adds one whose debit and credit entries all reference
\* ids of accounts that are in the chart at that step.
C28_AddedVoucherReferencesChart ==
    [][ vouchers' # vouchers
           => /\ Len(vouchers') = Len(vouchers) + 1
              /\ \A j \in 1..Len(vouchers'[1].debitEntries) :
                    vouchers'[1].debitEntries[j].accountId \in Ids(accounts)
              /\ \A j \in 1..Len(vouchers'[1].creditEntries) :
                    vouchers'[1].creditEntries[j].accountId \in Ids(accounts) ]_vars

\* C29: the step in which a suggestion response arrives leaves each side of
\* the form with the rows it had: no row is added, the rows other than the
\* one the request was made for are as before, and that row keeps its amount
\* and its line description, so that no row is left without an amount.
C29_ResponseWritesRequestedRow ==
    [][ \A req \in pending, outcome \in SuggestedNames \cup {"error"} :
           (pending' # pending /\ SuggestResponse(req, outcome))
               => /\ Len(debitEntries') = Len(debitEntries)
                  /\ Len(creditEntries') = Len(creditEntries)
                  /\ \A isDebit \in BOOLEAN :
                        LET old == IF isDebit THEN debitEntries ELSE creditEntries
                            new == IF isDebit THEN debitEntries' ELSE creditEntries'
                        IN  \A j \in 1..Len(new) :
                                /\ new[j] # EmptySlot
                                /\ new[j].amount # NaN
                                /\ j \in 1..Len(old)
                                      => IF isDebit = req.isDebit /\ j = req.index + 1
                                         THEN /\ new[j].amount = old[j].amount
                                              /\ new[j].description = old[j].description
                                         ELSE new[j] = old[j] ]_vars

\* C30: while an AI request, for a suggestion or for advice, has not ended,
\* the loading flag is true, no suggest button and no analysis button can be
\* pressed, and no second request is outstanding.
C30_LoadingWhileOutstanding ==
    pending # {}
        => /\ aiLoading
           /\ Cardinality(pending) <= 1
           /\ ~ENABLED (\E isDebit \in BOOLEAN, index \in 0..1 : ClickSuggest(isDebit, index))
           /\ ~ENABLED ClickAdvice

\* A suggestion request is outstanding while the trial balance is open with
\* rows to analyse.
C30_Witness ==
    /\ \E req \in pending : req.kind = "suggest"
    /\ activeTab = "tb"
    /\ tbData(vouchers, accounts) # <<>>

====
